---------------------------- MODULE Spec2Model ----------------------------
(***************************************************************************)
(* Model of scripts/logo_image.py: the LogoImage compositor (draw), the    *)
(* glyph rasterizer (Logo.__init__), the point-to-segment distance         *)
(* (Logo.Line.distance2) and the backdrop rasterizer (Circle.__init__).    *)
(*                                                                         *)
(* Numbers.  Every float the rasterizers compute is a rational combination *)
(* of 1 and sqrt(2) (standard_distance = sqrt(2)/4, unit = size/(6+2*sd)). *)
(* A float is modelled by the exact real it rounds: the record             *)
(* [a, b, d] stands for (a + b*sqrt(2))/d with d > 0, in lowest terms.     *)
(* Ratios and thicknesses are drawn from multiples of 1/4, which binary    *)
(* floats hold exactly.  Two distinct values of this form with the         *)
(* magnitudes met here differ by far more than a rounding error, so a      *)
(* comparison of two distinct values has the outcome computed here.  A     *)
(* scaled squared distance that equals a threshold exactly (a pixel on an  *)
(* axis of the glyph at the edge of a stroke) is another matter: the two   *)
(* floats are rounded along different paths and the code's <= goes either  *)
(* way with the size.  The variable ties holds the thresholds at which     *)
(* equality counts as <=, and every choice of it is explored.              *)
(***************************************************************************)
EXTENDS Integers, Sequences, FiniteSets, TLC

(***************************************************************************)
(* Arithmetic in Q(sqrt 2)                                                 *)
(***************************************************************************)
Abs(n) == IF n < 0 THEN -n ELSE n

Min2(m, n) == IF m <= n THEN m ELSE n

RECURSIVE Gcd(_, _)
Gcd(m, n) == IF n = 0 THEN m ELSE Gcd(n, m % n)

\* (a + b*sqrt2)/d for d > 0, its terms divided by their common factor g
Reduced(a, b, d, g) == [a |-> a \div g, b |-> b \div g, d |-> d \div g]

\* (a + b*sqrt2)/d in lowest terms, for d > 0
Q(a, b, d) == Reduced(a, b, d, Gcd(Gcd(Abs(a), Abs(b)), d))

I(n) == [a |-> n, b |-> 0, d |-> 1]

Neg(u) == [a |-> -u.a, b |-> -u.b, d |-> u.d]

\* u + v over the common denominator u.d * fu, where fu = v.d/g, fv = u.d/g
AddOver(u, v, fu, fv) == Q(u.a * fu + v.a * fv, u.b * fu + v.b * fv, u.d * fu)

AddWith(u, v, g) == AddOver(u, v, v.d \div g, u.d \div g)

Add(u, v) == AddWith(u, v, Gcd(u.d, v.d))

Sub(u, v) == Add(u, Neg(v))

\* the common factor of the numerator's two terms (0 for the number 0)
Content(u) == Gcd(Abs(u.a), Abs(u.b))

\* the factor of n that cancels against the denominator d
Cancel(n, d) == IF n = 0 THEN 1 ELSE Gcd(n, d)

\* the product of (ua + ub*sqrt2)/ud and (va + vb*sqrt2)/vd
MulTerms(ua, ub, ud, va, vb, vd) == Q(ua * va + 2 * ub * vb, ua * vb + ub * va, ud * vd)

\* the product, after cancelling gu from u's numerator and v's denominator and
\* gv from v's numerator and u's denominator
MulWith(u, v, gu, gv) ==
    MulTerms(u.a \div gu, u.b \div gu, u.d \div gv, v.a \div gv, v.b \div gv, v.d \div gu)

Mul(u, v) == MulWith(u, v, Cancel(Content(u), v.d), Cancel(Content(v), u.d))

\* (a + b*sqrt2)/n for an integer n # 0
Over(a, b, n) == IF n < 0 THEN Q(-a, -b, -n) ELSE Q(a, b, n)

\* 1/u for u # 0: d*(a - b*sqrt2)/(a^2 - 2b^2)
Inv(u) == Mul(I(u.d), Over(u.a, -u.b, u.a * u.a - 2 * u.b * u.b))

Div(u, v) == Mul(u, Inv(v))

Sq(u) == Mul(u, u)

\* the sign of m - n*sqrt2 for naturals m, n (not both 0), without squaring
RECURSIVE CmpRoot2(_, _)
CmpRoot2(m, n) ==
    IF n = 0 THEN 1
    ELSE IF m >= 2 * n THEN 1
    ELSE IF m <= n THEN -1
    ELSE -CmpRoot2(2 * n - m, m - n)

\* the sign of u: -1, 0 or 1
Sign(u) ==
    IF u.a = 0 /\ u.b = 0 THEN 0
    ELSE IF u.a >= 0 /\ u.b >= 0 THEN 1
    ELSE IF u.a <= 0 /\ u.b <= 0 THEN -1
    ELSE IF u.a > 0 THEN CmpRoot2(u.a, -u.b)
    ELSE -CmpRoot2(-u.a, u.b)

Leq(u, v) == Sign(Sub(u, v)) <= 0

Lt(u, v) == Sign(Sub(u, v)) < 0

Geq(u, v) == Leq(v, u)

Gt(u, v) == Lt(v, u)

\* u <= v as the floats decide it: when the two reals are equal the outcome is
\* the rounding's, given by atEqual
LeqRounded(u, v, atEqual) == IF atEqual THEN Leq(u, v) ELSE Lt(u, v)

\* int(u) of a rational: truncation toward zero
Trunc(u) == IF u.a >= 0 THEN u.a \div u.d ELSE -((-u.a) \div u.d)

\* u // 1 of a rational: the floor
Floor(u) == u.a \div u.d

(***************************************************************************)
(* Logo.Line                                                               *)
(***************************************************************************)
Root2 == [a |-> 0, b |-> 1, d |-> 1]

\* Line.standard_distance = math.sqrt(2) / 4
standard_distance == [a |-> 0, b |-> 1, d |-> 4]

\* Line.__init__: the derived fields of the segment from (x1, y1) to (x2, y2)
LineFields(x1, y1, A, B, body_color, outline_color) ==
    [body_color |-> body_color, outline_color |-> outline_color,
     x1 |-> x1, y1 |-> y1, x2 |-> x1 + A, y2 |-> y1 + B,
     A |-> A, B |-> B,
     C |-> (-x1) * A - y1 * B,
     D |-> A * A + B * B]

\* Line.__init__(a, b, body_color, outline_color)
Line(a, b, body_color, outline_color) ==
    LineFields(a[1], a[2], b[1] - a[1], b[2] - a[2], body_color, outline_color)

\* Line.distance2: r = (x * A + y * B + C) / D
Projection(line, xl, yl) ==
    Div(Add(Add(Mul(xl, I(line.A)), Mul(yl, I(line.B))), I(line.C)), I(line.D))

\* pow(x - xc, 2) + pow(y - yc, 2)
Distance2To(xl, yl, xc, yc) == Add(Sq(Sub(xl, xc)), Sq(Sub(yl, yc)))

\* a distance2 without the branches on r: the squared distance to the foot of the
\* perpendicular on the infinite line
Distance2ToLine(line, xl, yl, r) ==
    Distance2To(xl, yl, Add(I(line.x1), Mul(r, I(line.A))),
                        Add(I(line.y1), Mul(r, I(line.B))))

\* Line.distance2: the three branches on r
Distance2At(line, xl, yl, r) ==
    IF Leq(r, I(0)) THEN Distance2To(xl, yl, I(line.x1), I(line.y1))
    ELSE IF Geq(r, I(1)) THEN Distance2To(xl, yl, I(line.x2), I(line.y2))
    ELSE Distance2To(xl, yl, Add(I(line.x1), Mul(r, I(line.A))),
                             Add(I(line.y1), Mul(r, I(line.B))))

\* Line.distance2(x, y)
distance2(line, xl, yl) == Distance2At(line, xl, yl, Projection(line, xl, yl))

(***************************************************************************)
(* Logo.__init__                                                           *)
(***************************************************************************)
\* self.lines: the five segments, in the order the loop examines them
lines ==
    << Line(<<-3, 0>>, <<0, 3>>, "outside_line_body", "outside_line_outline"),
       Line(<<3, 0>>, <<0, -3>>, "outside_line_body", "outside_line_outline"),
       Line(<<-1, 0>>, <<0, 1>>, "inside_line_body", "inside_line_outline"),
       Line(<<1, 0>>, <<0, -1>>, "inside_line_body", "inside_line_outline"),
       Line(<<3, 0>>, <<-3, 0>>, "single_line_body", "single_line_outline") >>

\* self.unit = self.size / (6 + self.Line.standard_distance * 2)
Unit(size) == Div(I(size), Add(I(6), Mul(standard_distance, I(2))))

\* the variables the loop pre-calculates from unit; ties says which of the two
\* threshold comparisons hold when their sides are equal as reals
PreCalcOf(size, outline_thickness, ties, unit) ==
    [size |-> size,
     ties |-> ties,
     unit |-> unit,
     standard_distance2 |-> Sq(Mul(standard_distance, unit)),
     sqrt2_standard_distance |-> Mul(Root2, standard_distance),
     body_distance2 |-> Sq(Sub(Mul(standard_distance, unit), outline_thickness)),
     unit2 |-> Sq(unit)]

PreCalc(size, outline_thickness, ties) ==
    PreCalcOf(size, outline_thickness, ties, Unit(size))

\* a local coordinate measured from the corner of the region, not its centre
InLogoFromCorner(pre, i) == Div(I(i), pre.unit)

\* x_in_logo = (x - self.size / 2) / self.unit
InLogo(pre, i) == Div(Sub(I(i), Q(pre.size, 0, 2)), pre.unit)

\* the four tests under which a pixel skips the segment loop
Culled(pre, xl, yl) ==
    \/ Geq(xl, standard_distance) /\ Geq(yl, standard_distance)
    \/ Leq(xl, Neg(standard_distance)) /\ Leq(yl, Neg(standard_distance))
    \/ Gt(Sub(xl, yl), Add(I(3), pre.sqrt2_standard_distance))
    \/ Lt(Sub(xl, yl), Sub(I(-3), pre.sqrt2_standard_distance))

\* the if / elif of the segment loop on the scaled squared distance d2
Band(pre, d2) ==
    IF LeqRounded(d2, pre.body_distance2, "body" \in pre.ties) THEN "body"
    ELSE IF LeqRounded(d2, pre.standard_distance2, "outline" \in pre.ties)
    THEN "outline"
    ELSE "none"

\* one iteration of "for line in self.lines": what segment n does to the pixel
SegmentTest(pre, n, xl, yl) == Band(pre, Mul(distance2(lines[n], xl, yl), pre.unit2))

\* the colour a segment writes for a band
BandColour(n, kind) ==
    IF kind = "body" THEN lines[n].body_color ELSE lines[n].outline_color

NoClaim == [seg |-> 0, kind |-> "none", colour |-> "none"]

\* segment n's iteration, given its outcome, and the iterations after it
RECURSIVE SegmentStep(_, _, _, _, _)
SegmentStep(pre, n, xl, yl, kind) ==
    IF kind # "none" THEN [seg |-> n, kind |-> kind, colour |-> BandColour(n, kind)]
    ELSE IF n = Len(lines) THEN NoClaim
    ELSE SegmentStep(pre, n + 1, xl, yl, SegmentTest(pre, n + 1, xl, yl))

\* "for line in self.lines": the first segment that breaks claims the pixel
SegmentLoop(pre, xl, yl) == SegmentStep(pre, 1, xl, yl, SegmentTest(pre, 1, xl, yl))

\* the cull test and the segment loop at local coordinates (xl, yl)
LogoAt(pre, xl, yl) == IF Culled(pre, xl, yl) THEN NoClaim ELSE SegmentLoop(pre, xl, yl)

\* the body of the pixel loop for tensor pixel (i, j)
LogoPixel(pre, i, j) == LogoAt(pre, InLogo(pre, i), InLogo(pre, j))

(***************************************************************************)
(* Circle.__init__                                                         *)
(***************************************************************************)
\* a backdrop whose outline stops short of the radius: < for the second <=
CircleBandOpen(r2, body_distance2, radius2) ==
    IF Leq(r2, body_distance2) THEN "circle_body"
    ELSE IF Lt(r2, radius2) THEN "circle_outline"
    ELSE "none"

\* the if / elif of the pixel loop on the squared distance r2 to the centre
CircleBand(r2, body_distance2, radius2) ==
    IF Leq(r2, body_distance2) THEN "circle_body"
    ELSE IF Leq(r2, radius2) THEN "circle_outline"
    ELSE "none"

\* the body of the pixel loop for tensor pixel (i, j): the colour written, if any
CirclePixel(radius, outline_thickness, i, j) ==
    CircleBand(I((i - radius) * (i - radius) + (j - radius) * (j - radius)),
               Sq(Sub(I(radius), outline_thickness)),
               I(radius * radius))

(***************************************************************************)
(* The canvas and its slices                                               *)
(***************************************************************************)
Unallocated == << >>

\* np.full((width, height, 4), background_color): value[x][y]
Full(width, height) == [i \in 0 .. width - 1 |-> [j \in 0 .. height - 1 |-> "background"]]

\* a slice bound i on an axis of length n, as Python clips it
SliceIndex(i, n) == IF i < 0 THEN (IF i + n < 0 THEN 0 ELSE i + n) ELSE Min2(i, n)

\* value[start_x:end_x, start_y:end_y]: the view's origin and shape
Slice(start_x, end_x, start_y, end_y, width, height) ==
    LET x0 == SliceIndex(start_x, width)
        x1 == SliceIndex(end_x, width)
        y0 == SliceIndex(start_y, height)
        y1 == SliceIndex(end_y, height)
    IN  [x0 |-> x0, nx |-> IF x1 > x0 THEN x1 - x0 ELSE 0,
         y0 |-> y0, ny |-> IF y1 > y0 THEN y1 - y0 ELSE 0]

SetMin(S) == CHOOSE m \in S : \A k \in S : m <= k

\* one pass of an inner loop "for y in range(n)" over row i of the view: col[y]
\* is the colour the pass writes to tensor[i, y] ("none": no write).  A write
\* outside the view raises IndexError and ends the loop; the writes before it
\* stay in the canvas.
RowWrite(view, canvas, i, col) ==
    LET writes == {y \in DOMAIN col : col[y] # "none"}
        bad == {y \in writes : i >= view.nx \/ y >= view.ny}
        stop == IF bad = {} THEN Cardinality(DOMAIN col) ELSE SetMin(bad)
        done == {y \in writes : y < stop}
    IN  [ok |-> bad = {},
         value |-> IF done = {} THEN canvas
                   ELSE [canvas EXCEPT ![view.x0 + i] =
                           [j \in DOMAIN @ |->
                              IF j - view.y0 \in done THEN col[j - view.y0] ELSE @[j]]]]

(***************************************************************************)
(* LogoImage.draw                                                          *)
(***************************************************************************)
\* cfg: the attributes __init__ sets; value, result, circle_radius, logo_size:
\* the attributes draw() sets; tensor: the view (image_slice) the running
\* rasterizer writes through; precalc: the values Logo.__init__ pre-calculates;
\* x: the outer loop index; pc: where draw() stands; ties: how the float
\* threshold comparisons come out on equal reals; query, answer: a call of
\* Line.distance2 on its own, and what it returned; workers: a second run of
\* the running rasterizer's pixel loop, its passes taken in any order
VARIABLES cfg, ties, pc, value, x, result, circle_radius, logo_size, tensor, precalc,
          query, answer, workers

vars == <<cfg, ties, pc, value, x, result, circle_radius, logo_size, tensor, precalc,
          query, answer, workers>>

drawVars == <<cfg, ties, pc, value, x, result, circle_radius, logo_size, tensor, precalc>>

NoView == [x0 |-> 0, nx |-> 0, y0 |-> 0, ny |-> 0]

\* int(min(self.height, self.width) * self.circle_size_ratio // 2)
CircleRadius(c) ==
    Floor(Div(Mul(I(Min2(c.height, c.width)), c.circle_size_ratio), I(2)))

\* value[circle_start_x:circle_end_x, circle_start_y:circle_end_y]
CircleSlice(c, radius) ==
    LET circle_start_x == (c.width \div 2) - radius
        circle_end_x == circle_start_x + radius * 2
        circle_start_y == (c.height \div 2) - radius
        circle_end_y == circle_start_y + radius * 2
    IN  Slice(circle_start_x, circle_end_x, circle_start_y, circle_end_y,
              c.width, c.height)

\* a glyph sized by the larger dimension of the canvas: max for min
LogoSizeOfLarger(c) ==
    Trunc(Mul(I(IF c.height >= c.width THEN c.height ELSE c.width), c.logo_size_ratio))

\* int(min(self.height, self.width) * self.logo_size_ratio)
LogoSize(c) == Trunc(Mul(I(Min2(c.height, c.width)), c.logo_size_ratio))

\* value[logo_start_x:logo_end_x, logo_start_y:logo_end_y]
LogoSlice(c, size) ==
    LET logo_start_x == (c.width - size) \div 2
        logo_end_x == logo_start_x + size
        logo_start_y == (c.height - size) \div 2
        logo_end_y == logo_start_y + size
    IN  Slice(logo_start_x, logo_end_x, logo_start_y, logo_end_y, c.width, c.height)

\* draw() from logo_size on, and Logo.__init__ up to its pixel loop
StartLogo ==
    /\ logo_size' = LogoSize(cfg)
    /\ tensor' = LogoSlice(cfg, logo_size')
    /\ precalc' = PreCalc(logo_size', cfg.outline_thickness, ties)
    /\ pc' = "logo"
    /\ x' = 0

\* draw() from circle_radius on, and Circle.__init__ up to its pixel loop
StartCircle ==
    /\ circle_radius' = CircleRadius(cfg)
    /\ tensor' = CircleSlice(cfg, circle_radius')
    /\ pc' = "circle"
    /\ x' = 0
    /\ UNCHANGED <<logo_size, precalc>>

\* draw() begins: the canvas is allocated and filled
Allocate ==
    /\ pc = "init"
    /\ value' = Full(cfg.width, cfg.height)
    /\ IF cfg.use_round_shape
       THEN StartCircle
       ELSE StartLogo /\ UNCHANGED circle_radius
    /\ UNCHANGED <<cfg, ties, result, query, answer, workers>>

\* the outcome of one pass of an outer loop: the next pass, or the IndexError
RowStep(row) ==
    /\ value' = row.value
    /\ pc' = IF row.ok THEN pc ELSE "failed"
    /\ x' = IF row.ok THEN x + 1 ELSE x

\* Circle.__init__: one pass of "for x in range(self.radius * 2)"
CircleRow ==
    /\ pc = "circle"
    /\ x < circle_radius * 2
    /\ RowStep(RowWrite(tensor, value, x,
                        [j \in 0 .. circle_radius * 2 - 1 |->
                           CirclePixel(circle_radius, cfg.outline_thickness, x, j)]))
    /\ UNCHANGED <<cfg, ties, result, circle_radius, logo_size, tensor, precalc,
                   query, answer, workers>>

\* the loop is over: get_circle() is the view itself, assigned onto itself;
\* draw() goes on to the logo
CircleReturn ==
    /\ pc = "circle"
    /\ x >= circle_radius * 2
    /\ StartLogo
    /\ UNCHANGED <<cfg, ties, value, result, circle_radius, query, answer, workers>>

\* Logo.__init__: one pass of "for x in range(self.size)"
LogoRow ==
    /\ pc = "logo"
    /\ x < logo_size
    /\ RowStep(RowWrite(tensor, value, x,
                        [j \in 0 .. logo_size - 1 |-> LogoPixel(precalc, x, j).colour]))
    /\ UNCHANGED <<cfg, ties, result, circle_radius, logo_size, tensor, precalc,
                   query, answer, workers>>

\* get_logo().transpose((1, 0, 2)) without the [::-1, :, :] that follows it
StampedTransposed(view, canvas, i, j) == canvas[view.x0 + j][view.y0 + i]

\* get_logo().transpose((1, 0, 2))[::-1, :, :]: entry (i, j) of the result is
\* tensor[j, ny - 1 - i]
Stamped(view, canvas, i, j) == canvas[view.x0 + j][view.y0 + (view.ny - 1 - i)]

\* value[logo_start_x:logo_end_x, logo_start_y:logo_end_y] = ...: the right-hand
\* side is read whole before the slice is written
Stamp(view, canvas) ==
    [i \in DOMAIN canvas |-> [j \in DOMAIN canvas[i] |->
        IF i - view.x0 \in 0 .. view.nx - 1 /\ j - view.y0 \in 0 .. view.ny - 1
        THEN Stamped(view, canvas, i - view.x0, j - view.y0)
        ELSE canvas[i][j]]]

\* Image.fromarray(self.value.transpose(1, 0, 2)): result[row][column]
FromArray(canvas, width, height) ==
    [r \in 0 .. height - 1 |-> [c \in 0 .. width - 1 |-> canvas[c][r]]]

\* the loop is over: the transposed, flipped view is assigned to the slice (a
\* ValueError unless the shapes agree), then the image is built
LogoReturn ==
    /\ pc = "logo"
    /\ x >= logo_size
    /\ IF tensor.nx = tensor.ny
       THEN /\ value' = Stamp(tensor, value)
            /\ result' = FromArray(value', cfg.width, cfg.height)
            /\ pc' = "done"
       ELSE /\ pc' = "failed"
            /\ UNCHANGED <<value, result>>
    /\ UNCHANGED <<cfg, ties, x, circle_radius, logo_size, tensor, precalc,
                   query, answer, workers>>

Next == Allocate \/ CircleRow \/ CircleReturn \/ LogoRow \/ LogoReturn

(***************************************************************************)
(* The configurations explored                                             *)
(***************************************************************************)
MaxDim == 4

Quarter(n) == Q(n, 0, 4)

LogoRatios == {Quarter(0), Quarter(3), Quarter(4), Quarter(6)}

CircleRatios == {Quarter(3), Quarter(4), Quarter(6)}

Thicknesses == {Quarter(0), Quarter(1), Quarter(8)}

Config(w, h, round, lr, cr, t) ==
    [width |-> w, height |-> h, use_round_shape |-> round,
     logo_size_ratio |-> lr, circle_size_ratio |-> cr, outline_thickness |-> t]

\* the default circle_size_ratio 0.6 is not a multiple of 1/4; without the
\* backdrop the ratio is never read
SmallConfigs ==
    {Config(w, h, FALSE, lr, Quarter(2), t) :
        w \in 1 .. MaxDim, h \in 1 .. MaxDim, lr \in LogoRatios, t \in Thicknesses}
    \cup
    {Config(c[1], c[2], TRUE, c[3], c[4], c[5]) :
        c \in (1 .. MaxDim) \X (1 .. MaxDim) \X LogoRatios \X CircleRatios \X Thicknesses}

\* scenario A of the specification: 64x64, logo_size_ratio 1.0, no backdrop,
\* default outline thickness
ScenarioA == Config(64, 64, FALSE, Quarter(4), Quarter(2), Quarter(8))

\* scenario B: a backdrop of radius 10 and outline thickness 2
ScenarioB == Config(24, 24, TRUE, Quarter(1), Q(7, 0, 8), Quarter(8))

\* a glyph large enough for strokes with a body and an outline band
ScenarioC == Config(12, 12, TRUE, Quarter(4), Quarter(3), Quarter(1))

Configs == SmallConfigs \cup {ScenarioA, ScenarioB, ScenarioC}

NoQuery == [line |-> 0, xl |-> I(0), yl |-> I(0)]

NoAnswer == << >>

NoWorkers == [phase |-> "none", todo |-> {}, colour |-> << >>, value |-> << >>,
              failed |-> FALSE]

\* the four pixels at which a threshold is met exactly are images of one another
\* under the glyph's symmetries, and so are the float operations on them: one
\* outcome per threshold.  With thickness 0 the two thresholds are one float.
Roundings(c) ==
    IF c.outline_thickness = I(0) THEN {{}, {"body", "outline"}}
    ELSE SUBSET {"body", "outline"}

Init ==
    /\ cfg \in Configs
    /\ ties \in Roundings(cfg)
    /\ pc = "init"
    /\ value = Unallocated
    /\ x = 0
    /\ result = Unallocated
    /\ circle_radius = 0
    /\ logo_size = 0
    /\ tensor = NoView
    /\ precalc = PreCalc(0, cfg.outline_thickness, ties)
    /\ query = NoQuery
    /\ answer = NoAnswer
    /\ workers = NoWorkers

Spec == Init /\ [][Next]_vars

(***************************************************************************)
(* Line.distance2 called on its own                                        *)
(***************************************************************************)
MaxCoord == 7

\* coordinates (a + b*sqrt2)/2: the lattice of half-integers, which holds the
\* segments' endpoints, and its shifts by sqrt2/2
Coords == {Q(a, b, 2) : a \in -MaxCoord .. MaxCoord, b \in {-1, 0, 1}}

InitDistance ==
    /\ cfg = ScenarioC
    /\ ties = {}
    /\ pc = "init"
    /\ value = Unallocated
    /\ x = 0
    /\ result = Unallocated
    /\ circle_radius = 0
    /\ logo_size = 0
    /\ tensor = NoView
    /\ precalc = PreCalc(0, cfg.outline_thickness, ties)
    /\ query \in [line : DOMAIN lines, xl : Coords, yl : Coords]
    /\ answer = NoAnswer
    /\ workers = NoWorkers

\* line.distance2(x, y)
Measure ==
    /\ answer = NoAnswer
    /\ answer' = <<distance2(lines[query.line], query.xl, query.yl)>>
    /\ UNCHANGED <<drawVars, query, workers>>

SpecDistance == InitDistance /\ [][Measure]_vars

(***************************************************************************)
(* The pixel loops with their passes in any order                          *)
(***************************************************************************)
MaxOrderDim == 2

\* a render whose glyph slice is clipped to one column of the canvas
ClippedConfig == Config(3, 4, FALSE, Quarter(6), Quarter(2), Quarter(8))

OrderConfigs ==
    {c \in SmallConfigs : c.width <= MaxOrderDim /\ c.height <= MaxOrderDim}
        \cup {ClippedConfig}

InitOrder ==
    /\ cfg \in OrderConfigs
    /\ ties \in Roundings(cfg)
    /\ pc = "init"
    /\ value = Unallocated
    /\ x = 0
    /\ result = Unallocated
    /\ circle_radius = 0
    /\ logo_size = 0
    /\ tensor = NoView
    /\ precalc = PreCalc(0, cfg.outline_thickness, ties)
    /\ query = NoQuery
    /\ answer = NoAnswer
    /\ workers = NoWorkers

\* range(n) x range(n): the passes of the two nested loops
Passes(n) == (0 .. n - 1) \X (0 .. n - 1)

\* what the body of the running rasterizer's pixel loop writes at tensor[i, j]
PixelColour(phase, i, j) ==
    IF phase = "circle" THEN CirclePixel(circle_radius, cfg.outline_thickness, i, j)
    ELSE LogoPixel(precalc, i, j).colour

\* a rasterizer is about to run its loops: a second run of the same loops starts
\* from the same buffer
Fork ==
    /\ pc \in {"circle", "logo"}
    /\ x = 0
    /\ workers.phase # pc
    /\ workers' = [phase |-> pc,
                   todo |-> Passes(IF pc = "circle" THEN circle_radius * 2 ELSE logo_size),
                   colour |-> [p \in Passes(IF pc = "circle" THEN circle_radius * 2
                                            ELSE logo_size) |->
                                 PixelColour(pc, p[1], p[2])],
                   value |-> value,
                   failed |-> FALSE]
    /\ UNCHANGED <<drawVars, query, answer>>

\* the row-by-row loops of the rasterizer have ended, by running out of rows or
\* by an IndexError (the glyph's loops cannot fail with no rows)
LoopsOver(phase) ==
    IF phase = "circle"
    THEN (pc = "circle" /\ x >= circle_radius * 2) \/ (pc = "failed" /\ logo_size = 0)
    ELSE (pc = "logo" /\ x >= logo_size) \/ (pc = "failed" /\ logo_size > 0)

\* the body of the pixel loop for pass p, on the second run's buffer
Pass(w, p, colour) ==
    IF colour = "none" THEN [w EXCEPT !.todo = @ \ {p}]
    ELSE IF p[1] < tensor.nx /\ p[2] < tensor.ny
    THEN [w EXCEPT !.todo = @ \ {p},
                   !.value[tensor.x0 + p[1]][tensor.y0 + p[2]] = colour]
    ELSE [w EXCEPT !.todo = @ \ {p}, !.failed = TRUE]

\* some pass not yet taken is taken, whichever it is
Work ==
    /\ workers.phase # "none"
    /\ LoopsOver(workers.phase)
    /\ \E p \in workers.todo : workers' = Pass(workers, p, workers.colour[p])
    /\ UNCHANGED <<drawVars, query, answer>>

NextOrder == Next \/ Fork \/ Work

SpecOrder == InitOrder /\ [][NextOrder]_vars

(***************************************************************************)
(* Renders with both ratios in (0, 1]                                      *)
(***************************************************************************)
MaxRegionDim == 8

\* the multiples of 1/8 in (0, 1]
RegionRatios == {Q(k, 0, 8) : k \in 1 .. 8}

RegionConfigs ==
    {Config(c[1], c[2], TRUE, c[3], c[4], Quarter(8)) :
        c \in (1 .. MaxRegionDim) \X (1 .. MaxRegionDim) \X RegionRatios \X RegionRatios}

InitRegions ==
    /\ cfg \in RegionConfigs
    /\ ties \in Roundings(cfg)
    /\ pc = "init"
    /\ value = Unallocated
    /\ x = 0
    /\ result = Unallocated
    /\ circle_radius = 0
    /\ logo_size = 0
    /\ tensor = NoView
    /\ precalc = PreCalc(0, cfg.outline_thickness, ties)
    /\ query = NoQuery
    /\ answer = NoAnswer
    /\ workers = NoWorkers

SpecRegions == InitRegions /\ [][Next]_vars

(***************************************************************************)
(* What the canvas holds                                                   *)
(***************************************************************************)
GlyphColours ==
    {"outside_line_body", "outside_line_outline", "inside_line_body",
     "inside_line_outline", "single_line_body", "single_line_outline"}

\* canvas pixel (i, j) lies in the view
InView(view, i, j) ==
    i - view.x0 \in 0 .. view.nx - 1 /\ j - view.y0 \in 0 .. view.ny - 1

\* the colour of canvas pixel (i, j) when the backdrop rasterizer has returned:
\* what it wrote there, or the background
BackdropAt(i, j) ==
    IF cfg.use_round_shape /\ InView(CircleSlice(cfg, circle_radius), i, j)
    THEN LET c == CirclePixel(circle_radius, cfg.outline_thickness,
                              i - CircleSlice(cfg, circle_radius).x0,
                              j - CircleSlice(cfg, circle_radius).y0)
         IN  IF c = "none" THEN "background" ELSE c
    ELSE "background"

\* the colour of tensor[a, b] when the glyph rasterizer has returned: what the
\* claiming segment wrote, or what the canvas held there before
AfterGlyph(claim, a, b) ==
    IF claim.seg # 0 THEN claim.colour ELSE BackdropAt(tensor.x0 + a, tensor.y0 + b)

TensorAt(a, b) == AfterGlyph(LogoPixel(precalc, a, b), a, b)

\* the scaled squared distance of segment n: line.distance2(...) * unit2
ScaledDistance2(pre, n, xl, yl) == Mul(distance2(lines[n], xl, yl), pre.unit2)

\* the pixel at (xl, yl) is within the outline threshold of no segment
OutsideEnvelope(pre, xl, yl) ==
    \A n \in DOMAIN lines : Gt(ScaledDistance2(pre, n, xl, yl), pre.standard_distance2)

(***************************************************************************)
(* C1                                                                      *)
(***************************************************************************)
\* what C1 gives the pixel: the first segment from n on within the outline
\* threshold, with its body colour within the body threshold as well and its
\* outline colour otherwise
RECURSIVE C1Claim(_, _, _, _, _)
C1Claim(pre, n, xl, yl, d2) ==
    IF LeqRounded(d2, pre.standard_distance2, "outline" \in pre.ties)
    THEN IF LeqRounded(d2, pre.body_distance2, "body" \in pre.ties)
         THEN [seg |-> n, kind |-> "body", colour |-> lines[n].body_color]
         ELSE [seg |-> n, kind |-> "outline", colour |-> lines[n].outline_color]
    ELSE IF n = Len(lines) THEN NoClaim
    ELSE C1Claim(pre, n + 1, xl, yl, ScaledDistance2(pre, n + 1, xl, yl))

C1Pixel(pre, xl, yl, colour, claim) ==
    Culled(pre, xl, yl) \/ (IF claim.seg = 0 THEN colour \notin GlyphColours
                            ELSE colour = claim.colour)

\* C1: in a finished row of the glyph rasterizer, every pixel that reached the
\* segment loop has the colour of the first segment, in the order of the list,
\* within the outline threshold: its body colour if also within the body
\* threshold, else its outline colour (and no glyph colour if there is none).
C1_FirstWithinOutlineWins ==
    (pc = "logo" /\ x > 0 /\ x - 1 < tensor.nx) =>
        \A j \in 0 .. Min2(logo_size, tensor.ny) - 1 :
            C1Pixel(precalc, InLogo(precalc, x - 1), InLogo(precalc, j),
                    value[tensor.x0 + x - 1][tensor.y0 + j],
                    C1Claim(precalc, 1, InLogo(precalc, x - 1), InLogo(precalc, j),
                            ScaledDistance2(precalc, 1, InLogo(precalc, x - 1),
                                            InLogo(precalc, j))))

(***************************************************************************)
(* C2                                                                      *)
(***************************************************************************)
\* canvas pixel (i, j) is strictly outside the backdrop's outer radius
OutsideBackdrop(i, j) ==
    cfg.use_round_shape =>
        (i - cfg.width \div 2) * (i - cfg.width \div 2)
          + (j - cfg.height \div 2) * (j - cfg.height \div 2)
            > circle_radius * circle_radius

\* canvas pixel (i, j) is outside the glyph: not in its region, or coloured from
\* a tensor pixel that is within the outline threshold of no segment
OutsideGlyph(i, j) ==
    InView(tensor, i, j) =>
        OutsideEnvelope(precalc, InLogo(precalc, j - tensor.y0),
                        InLogo(precalc, tensor.ny - 1 - (i - tensor.x0)))

\* C2: after draw(), every canvas pixel strictly outside the backdrop's outer
\* radius and outside the glyph's envelope has the background colour.
C2_BackgroundOutside ==
    pc = "done" =>
        \A i \in DOMAIN value : \A j \in DOMAIN value[i] :
            (OutsideBackdrop(i, j) /\ OutsideGlyph(i, j)) => value[i][j] = "background"

(***************************************************************************)
(* C3                                                                      *)
(***************************************************************************)
\* C3: in a finished row of the glyph rasterizer, every pixel the cull test
\* skipped is one the segment loop would have left alone.
C3_CullChangesNothing ==
    (pc = "logo" /\ x > 0) =>
        \A j \in 0 .. logo_size - 1 :
            Culled(precalc, InLogo(precalc, x - 1), InLogo(precalc, j)) =>
                SegmentLoop(precalc, InLogo(precalc, x - 1), InLogo(precalc, j)).seg = 0

(***************************************************************************)
(* C4                                                                      *)
(***************************************************************************)
\* C4 as stated: the image pixel at column c and row r of the glyph region was
\* coloured from local coordinates that increase with c (x) and with r (y),
\* that is, from tensor pixel (c - x0, r - y0).
C4_LocalXRightLocalYDown ==
    pc = "done" =>
        \A r \in DOMAIN result : \A c \in DOMAIN result[r] :
            InView(tensor, c, r) =>
                result[r][c] = TensorAt(c - tensor.x0, r - tensor.y0)

\* C4 amended: the image pixel at column c and row r of the glyph region was
\* coloured from tensor pixel (r - y0, ny - 1 - (c - x0)); the local x of that
\* pixel increases strictly with the row r and its local y decreases strictly
\* as the column c increases.
C4_LocalXDownLocalYLeft ==
    pc = "done" =>
        /\ \A r \in DOMAIN result : \A c \in DOMAIN result[r] :
               InView(tensor, c, r) =>
                   result[r][c] =
                       TensorAt(r - tensor.y0, tensor.ny - 1 - (c - tensor.x0))
        /\ \A k \in 1 .. logo_size - 1 :
               Lt(InLogo(precalc, k - 1), InLogo(precalc, k))

\* a finished render whose glyph region shows the bar's body off the diagonal
\* of the region
C4_Witness ==
    /\ pc = "done"
    /\ cfg = ScenarioC
    /\ \E r \in DOMAIN result : \E c \in DOMAIN result[r] :
           /\ InView(tensor, c, r)
           /\ r - tensor.y0 # c - tensor.x0
           /\ result[r][c] = "single_line_body"

(***************************************************************************)
(* C5                                                                      *)
(***************************************************************************)
Dot(ux, uy, vx, vy) == Add(Mul(ux, vx), Mul(uy, vy))

\* r clamped to [0, 1]
Clamp(r) == IF Leq(r, I(0)) THEN I(0) ELSE IF Geq(r, I(1)) THEN I(1) ELSE r

\* (cx, cy) is the point of the segment nearest to (px, py): the squared
\* distance d2 is the one to it, and no endpoint lies on its far side
NearestOnSegment(line, px, py, cx, cy, d2) ==
    /\ d2 = Add(Mul(Sub(px, cx), Sub(px, cx)), Mul(Sub(py, cy), Sub(py, cy)))
    /\ Leq(Dot(Sub(px, cx), Sub(py, cy), Sub(I(line.x1), cx), Sub(I(line.y1), cy)), I(0))
    /\ Leq(Dot(Sub(px, cx), Sub(py, cy), Sub(I(line.x2), cx), Sub(I(line.y2), cy)), I(0))

NearestAt(line, px, py, s, d2) ==
    NearestOnSegment(line, px, py,
                     Add(I(line.x1), Mul(s, I(line.A))),
                     Add(I(line.y1), Mul(s, I(line.B))), d2)

\* C5: distance2 returns the squared distance to the point of the closed segment
\* at parameter r clamped to [0, 1] (endpoint 1, endpoint 2 or the perpendicular
\* foot), that point is the nearest of the whole segment, and the result is 0
\* at each endpoint.
C5_ExactSegmentDistance ==
    answer # NoAnswer =>
        /\ NearestAt(lines[query.line], query.xl, query.yl,
                     Clamp(Projection(lines[query.line], query.xl, query.yl)),
                     answer[1])
        /\ (\/ query.xl = I(lines[query.line].x1) /\ query.yl = I(lines[query.line].y1)
            \/ query.xl = I(lines[query.line].x2) /\ query.yl = I(lines[query.line].y2))
               => answer[1] = I(0)

\* a point beyond endpoint 2 and off the segment's line has been measured
C5_Witness ==
    /\ answer # NoAnswer
    /\ Gt(Projection(lines[query.line], query.xl, query.yl), I(1))
    /\ Sign(Sub(Mul(Sub(query.xl, I(lines[query.line].x1)), I(lines[query.line].B)),
                Mul(Sub(query.yl, I(lines[query.line].y1)), I(lines[query.line].A)))) # 0

(***************************************************************************)
(* C6                                                                      *)
(***************************************************************************)
\* the colour the claim gives a pixel at squared distance r2 from the centre,
\* for thickness tn/td, in integers
C6Colour(r2, radius, tn, td) ==
    IF r2 * td * td <= (radius * td - tn) * (radius * td - tn) THEN "circle_body"
    ELSE IF r2 <= radius * radius THEN "circle_outline"
    ELSE "background"

\* C6: every pixel of the backdrop's region in a finished row is body colour
\* when its squared distance to (radius, radius) is at most
\* (radius - thickness)^2, else outline colour when at most radius^2, else
\* unchanged; with radius 10 and thickness 2 the centre is body, a pixel at
\* distance 9 outline and a pixel at distance 11 unchanged.
C6_BackdropClassification ==
    pc = "circle" =>
        /\ \A i \in 0 .. x - 1 : \A j \in 0 .. 2 * circle_radius - 1 :
               (i < tensor.nx /\ j < tensor.ny) =>
                   value[tensor.x0 + i][tensor.y0 + j] =
                       C6Colour((i - circle_radius) * (i - circle_radius)
                                  + (j - circle_radius) * (j - circle_radius),
                                circle_radius,
                                cfg.outline_thickness.a, cfg.outline_thickness.d)
        /\ (cfg = ScenarioB /\ x = 2 * circle_radius) =>
               /\ circle_radius = 10
               /\ cfg.outline_thickness = I(2)
               /\ value[cfg.width \div 2][cfg.height \div 2] = "circle_body"
               /\ value[cfg.width \div 2 + 9][cfg.height \div 2] = "circle_outline"
               /\ value[cfg.width \div 2][cfg.height \div 2 - 9] = "circle_outline"
               /\ value[cfg.width \div 2 + 11][cfg.height \div 2] = "background"
               /\ value[cfg.width \div 2][cfg.height \div 2 - 11] = "background"

\* the radius-10 backdrop has been rasterized
C6_Witness ==
    /\ pc = "circle"
    /\ cfg = ScenarioB
    /\ x = 2 * circle_radius
    /\ value[cfg.width \div 2][cfg.height \div 2] = "circle_body"

(***************************************************************************)
(* C7                                                                      *)
(***************************************************************************)
\* 0 <= body < outline
Ordered(body, outline) == Geq(body, I(0)) /\ Lt(body, outline)

\* C7: while either rasterizer classifies pixels, its body threshold radius is
\* non-negative and strictly less than its outline threshold radius.
C7_BodyBelowOutline ==
    /\ (pc = "logo" /\ logo_size > 0) =>
           Ordered(Sub(Mul(standard_distance, precalc.unit), cfg.outline_thickness),
                   Mul(standard_distance, precalc.unit))
    /\ (pc = "circle" /\ circle_radius > 0) =>
           Ordered(Sub(I(circle_radius), cfg.outline_thickness), I(circle_radius))

(***************************************************************************)
(* C8                                                                      *)
(***************************************************************************)
\* C8: on the 64x64 canvas with logo_size_ratio 1.0, no backdrop and thickness
\* 2, the finished image has the bar's body colour at its centre (the four
\* pixels around the centre point) and the background colour at its corners.
C8_ScenarioA ==
    (pc = "done" /\ cfg = ScenarioA) =>
        /\ \A r \in {31, 32} : \A c \in {31, 32} : result[r][c] = "single_line_body"
        /\ \A r \in {0, 63} : \A c \in {0, 63} : result[r][c] = "background"

\* scenario A has been rendered
C8_Witness ==
    /\ pc = "done"
    /\ cfg = ScenarioA
    /\ logo_size = 64
    /\ result[32][32] = "single_line_body"

(***************************************************************************)
(* C9                                                                      *)
(***************************************************************************)
InUnitInterval(u) == Gt(u, I(0)) /\ Leq(u, I(1))

ValidConfig(c) ==
    /\ c.width > 0
    /\ c.height > 0
    /\ InUnitInterval(c.logo_size_ratio)
    /\ InUnitInterval(c.circle_size_ratio)

\* C9: a configuration with a dimension <= 0 or a ratio outside (0, 1] gets no
\* further than a failure reported before the canvas is allocated, and no
\* failure is reported once the canvas is allocated.
C9_FailsBeforePixelWork ==
    /\ ~ValidConfig(cfg) => (pc \in {"init", "failed"} /\ DOMAIN value = {})
    /\ pc = "failed" => DOMAIN value = {}

(***************************************************************************)
(* C10                                                                     *)
(***************************************************************************)
\* C10: after the glyph is composited, every canvas pixel of its region that
\* was coloured from an unclaimed tensor pixel has the colour that canvas pixel
\* held before the glyph was rasterized.
C10_UnclaimedKeepsColour ==
    pc = "done" =>
        \A i \in DOMAIN value : \A j \in DOMAIN value[i] :
            (/\ InView(tensor, i, j)
             /\ LogoPixel(precalc, j - tensor.y0,
                          tensor.ny - 1 - (i - tensor.x0)).seg = 0)
                => value[i][j] = BackdropAt(i, j)

(***************************************************************************)
(* C11                                                                     *)
(***************************************************************************)
\* C11: when the row-by-row loops of a rasterizer have ended and a second run of
\* the same pixel passes from the same buffer, taken in any order, has ended
\* (every pass taken, or an IndexError raised), the two buffers are equal.
C11_AnyOrderSameBuffer ==
    (/\ workers.phase # "none"
     /\ LoopsOver(workers.phase)
     /\ (workers.todo = {} \/ workers.failed))
        => workers.value = value

(***************************************************************************)
(* C12                                                                     *)
(***************************************************************************)
\* [start, start + side) lies inside [0, n)
Inside(start, side, n) == 0 <= start /\ start + side <= n

\* the square region at (start_x, start_y) lies inside the canvas and the view
\* is that region, side by side
WholeRegion(view, start_x, start_y, side) ==
    /\ Inside(start_x, side, cfg.width)
    /\ Inside(start_y, side, cfg.height)
    /\ view = [x0 |-> start_x, nx |-> side, y0 |-> start_y, ny |-> side]

\* C12: with width, height >= 1 and both ratios in (0, 1], the backdrop region
\* [circle_start, circle_start + 2 * circle_radius) and the glyph region
\* [logo_start, logo_start + logo_size) lie inside the canvas on both axes, the
\* slice a rasterizer writes through has the side its loops run over, and no
\* write falls outside the slice.
C12_RegionsInsideCanvas ==
    ValidConfig(cfg) =>
        /\ pc = "circle" =>
               WholeRegion(tensor, cfg.width \div 2 - circle_radius,
                           cfg.height \div 2 - circle_radius, circle_radius * 2)
        /\ pc = "logo" =>
               WholeRegion(tensor, (cfg.width - logo_size) \div 2,
                           (cfg.height - logo_size) \div 2, logo_size)
        /\ pc # "failed"

\* on a canvas that is not square, behind a backdrop, the glyph's loops have
\* run to their end and written a glyph colour
C12_Witness ==
    /\ ValidConfig(cfg)
    /\ cfg.width # cfg.height
    /\ circle_radius > 0
    /\ pc = "logo"
    /\ logo_size > 1
    /\ x = logo_size
    /\ \E i \in DOMAIN value : \E j \in DOMAIN value[i] : value[i][j] \in GlyphColours

=============================================================================
